---- MODULE Spec2Model ----
(***************************************************************************)
(* Model of src/app.py, the Bristol crime dashboard: a Streamlit script    *)
(* that the runtime re-executes from top to bottom on every interaction.   *)
(*                                                                         *)
(* One rerun is the sequence of steps                                      *)
(*   load_data -> load_geojson -> slider -> time_mask -> multiselect ->    *)
(*   export -> aggregate -> overview -> map -> tab3 -> done                *)
(* and pc names the step the script is about to execute.                   *)
(*                                                                         *)
(* Data representation.                                                    *)
(*   - a DataFrame is [columns |-> <<names>>, rows |-> <<row functions>>]; *)
(*   - a float is a pair <<n, d>> read as n/d in lowest terms, with        *)
(*     <<1, 0>> for +inf and <<0, 0>> for NaN (IEEE division as pandas     *)
(*     performs it); rounding of binary floats is not modelled;            *)
(*   - an area code (LSOA21CD) and a local name (LSOA21LN) are abstract    *)
(*     identifiers, written as natural numbers; NA is the missing code;    *)
(*   - a month is a natural number (the month index of the data set).      *)
(* Columns that no modelled statement reads (Latitude, Longitude, Income,  *)
(* Employment, EducationScore) are left out of the tables; the map metric  *)
(* radio button, the folium map and the plotly charts are library calls    *)
(* whose only modelled effect is the injection of statistics into the      *)
(* GeoJSON features.                                                       *)
(***************************************************************************)
EXTENDS Integers, Sequences, FiniteSets, TLC

VARIABLES
    files,              \* the input files present on disk
    disk,               \* contents of the input files (never written by the program)
    cache,              \* st.cache_data entry of load_data: <<>> or <<value>>
    pc,                 \* the step the script is at
    loaded,             \* the objects the loader returned in this rerun
    start_date,
    end_date,
    base_filtered_incidents,
    all_crimes,
    valid_defaults,
    selected_crimes,
    filtered_incidents,
    export_csv,
    master_df,
    top_deprived,
    top_crime,
    common_areas,
    ui                  \* the user-visible messages of this rerun

vars == << files, disk, cache, pc, loaded, start_date, end_date,
           base_filtered_incidents, all_crimes, valid_defaults, selected_crimes,
           filtered_incidents, export_csv, master_df, top_deprived, top_crime,
           common_areas, ui >>

(***************************************************************************)
(* Bounds of the model.                                                    *)
(***************************************************************************)
MaxIncidents == 2
MaxMonth == 2
NumAreas == 11

(***************************************************************************)
(* Program constants.                                                      *)
(***************************************************************************)
TopN == 10
PerThousand == 1000
NA == 0
NaT == 0

target_defaults ==
    << "Vehicle crime", "Criminal damage and arson", "Burglary",
       "Anti-social behaviour", "Other crime", "Violence and sexual offences" >>

cols_to_drop == << "Period_Total_Crimes", "Total_Crimes", "Crime_Rate" >>

(***************************************************************************)
(* Generic helpers.                                                        *)
(***************************************************************************)
Range(s) == { s[i] : i \in 1..Len(s) }

Min2(a, b) == IF a <= b THEN a ELSE b

RECURSIVE GCD(_, _)
GCD(a, b) == IF b = 0 THEN a ELSE GCD(b, a % b)

(***************************************************************************)
(* Floats.                                                                 *)
(***************************************************************************)
NaN == << 0, 0 >>
Inf == << 1, 0 >>
Zero == << 0, 1 >>

Norm(n, d) == IF d = 0 THEN (IF n = 0 THEN NaN ELSE Inf)
              ELSE LET g == GCD(n, d) IN << n \div g, d \div g >>

FromInt(k) == << k, 1 >>

\* x / p for a float x >= 0 and an integer p >= 0 (numpy true division:
\* 0/0 is NaN, k/0 is inf for k > 0)
FDivInt(x, p) == IF x = NaN THEN NaN ELSE Norm(x[1], x[2] * p)

\* x * m for a float x >= 0 and an integer m > 0
FMulInt(x, m) == IF x = NaN THEN NaN ELSE Norm(x[1] * m, x[2])

\* Series.fillna(v): only NaN is replaced; inf is a value like any other
fillna(x, v) == IF x = NaN THEN v ELSE x

\* x >= y on floats without NaN
FloatGE(x, y) == x[1] * y[2] >= y[1] * x[2]

(***************************************************************************)
(* DataFrames and the pandas operations the script uses.                   *)
(***************************************************************************)
DataFrame(cols, rws) == [columns |-> cols, rows |-> rws]

EmptyFrame == DataFrame(<< >>, << >>)

\* what a failed column lookup (KeyError) leaves in place of a frame
KeyError == DataFrame(<< "KeyError" >>, << >>)

HasColumn(df, c) == c \in Range(df.columns)

\* the sequence s without the entries in the set S, order kept
Without(s, S) == SelectSeq(s, LAMBDA c : c \notin S)

\* DataFrame.drop(columns=cs): a new frame without the columns cs
drop(df, cs) ==
    DataFrame(Without(df.columns, cs),
              [i \in 1..Len(df.rows) |->
                  [c \in (DOMAIN df.rows[i]) \ cs |-> df.rows[i][c]]])

\* df[c] = values: the column is overwritten in place, or appended last
SetColumn(df, c, values) ==
    DataFrame(IF HasColumn(df, c) THEN df.columns ELSE Append(df.columns, c),
              [i \in 1..Len(df.rows) |->
                  [k \in (DOMAIN df.rows[i]) \cup {c} |->
                      IF k = c THEN values[i] ELSE df.rows[i][k]]])

\* the number of rows of the sequence s whose LSOA21CD is code
CountCode(s, code) == Cardinality({ i \in 1..Len(s) : s[i].LSOA21CD = code })

\* the distinct values of s in order of first appearance (Series.unique)
RECURSIVE unique(_)
unique(s) ==
    IF s = << >> THEN << >>
    ELSE LET front == unique(SubSeq(s, 1, Len(s) - 1))
             last  == s[Len(s)]
         IN  IF last \in Range(front) THEN front ELSE Append(front, last)

value_counts_distinct(incidents, code) ==
    IF code = NA THEN 0 ELSE Min2(1, CountCode(incidents, code))

\* Series.value_counts() with its default dropna=True: the number of rows a
\* code occurs in, for every code that is not missing
value_counts(incidents, code) ==
    IF code = NA THEN 0 ELSE CountCode(incidents, code)

\* filtered_incidents['LSOA21CD'].value_counts().reset_index() with the two
\* columns renamed: one row per distinct code that is present, in order of
\* first appearance (the order has no effect on the left join below)
current_crime_counts(incidents) ==
    LET codes == unique([i \in 1..Len(incidents) |-> incidents[i].LSOA21CD])
        kept  == SelectSeq(codes, LAMBDA c : value_counts(incidents, c) > 0)
    IN  DataFrame(<< "LSOA21CD", "Period_Total_Crimes" >>,
                  [i \in 1..Len(kept) |->
                      [LSOA21CD |-> kept[i],
                       Period_Total_Crimes |-> FromInt(value_counts(incidents, kept[i]))]])

\* the name a column takes in a merge when both frames have it
Suffixed(c, collisions, suffix) == IF c \in collisions THEN c \o suffix ELSE c

RenameRow(row, keep, collisions, suffix) ==
    [k \in { Suffixed(c, collisions, suffix) : c \in keep } |->
        LET c == CHOOSE c \in keep : Suffixed(c, collisions, suffix) = k IN row[c]]

JoinRowsInner(lrow, right, on, rcols, collisions) ==
    LET l == RenameRow(lrow, DOMAIN lrow, collisions, "_x")
        m == SelectSeq(right.rows, LAMBDA r : r[on] = lrow[on])
    IN  [j \in 1..Len(m) |-> l @@ RenameRow(m[j], rcols, collisions, "_y")]

\* the rows a left row joins to: one per matching right row; how='left'
\* keeps the left row, with NaN in the right columns, when nothing matches
JoinRows(lrow, right, on, rcols, collisions) ==
    LET l == RenameRow(lrow, DOMAIN lrow, collisions, "_x")
        m == SelectSeq(right.rows, LAMBDA r : r[on] = lrow[on])
        nan == [k \in { Suffixed(c, collisions, "_y") : c \in rcols } |-> NaN]
    IN  IF m = << >> THEN << l @@ nan >>
        ELSE [j \in 1..Len(m) |-> l @@ RenameRow(m[j], rcols, collisions, "_y")]

RECURSIVE MergeRows(_, _, _, _, _)
MergeRows(lrows, right, on, rcols, collisions) ==
    IF lrows = << >> THEN << >>
    ELSE MergeRows(SubSeq(lrows, 1, Len(lrows) - 1), right, on, rcols, collisions)
         \o JoinRows(lrows[Len(lrows)], right, on, rcols, collisions)

\* pd.merge(left, right, on=on, how='left')
merge(left, right, on) ==
    LET rcols == Range(right.columns) \ {on}
        collisions == Range(left.columns) \cap rcols
    IN  DataFrame(
            [i \in 1..Len(left.columns) |-> Suffixed(left.columns[i], collisions, "_x")]
            \o [i \in 1..Len(Without(right.columns, {on})) |->
                    Suffixed(Without(right.columns, {on})[i], collisions, "_y")],
            MergeRows(left.rows, right, on, rcols, collisions))

(***************************************************************************)
(* The aggregation pass (section 3 of the script).                         *)
(***************************************************************************)
StaleColumnsKeepRate(df) == { c \in Range(cols_to_drop) : HasColumn(df, c) } \ {"Crime_Rate"}

\* [c for c in cols_to_drop if c in master_df.columns]
StaleColumns(df) == { c \in Range(cols_to_drop) : HasColumn(df, c) }

\* (Total_Crimes / POP2022Total) * 1000, then fillna(0)
CrimeRate(row) ==
    fillna(FMulInt(FDivInt(row.Total_Crimes, row.POP2022Total), PerThousand), Zero)

\* lines 157-160 on the merged frame; a frame without the merged count
\* column (suffixed by a collision) fails the first lookup
RecalculateRates(merged) ==
    IF ~HasColumn(merged, "Period_Total_Crimes") THEN KeyError
    ELSE LET n == Len(merged.rows)
             filled == SetColumn(merged, "Period_Total_Crimes",
                           [i \in 1..n |-> fillna(merged.rows[i].Period_Total_Crimes, Zero)])
             total  == SetColumn(filled, "Total_Crimes",
                           [i \in 1..n |-> filled.rows[i].Period_Total_Crimes])
         IN  SetColumn(total, "Crime_Rate", [i \in 1..n |-> CrimeRate(total.rows[i])])

\* lines 146-160: count, drop the stale columns, left-join, derive
recompute_area_stats(master, filtered) ==
    RecalculateRates(
        merge(drop(master, StaleColumns(master)),
              current_crime_counts(filtered), "LSOA21CD"))

(***************************************************************************)
(* The filters (section 2 of the script).                                  *)
(***************************************************************************)
time_mask_open_end(row, lo, hi) == row.Month >= lo /\ row.Month < hi

\* (Month >= start_date) & (Month <= end_date)
time_mask(row, lo, hi) == row.Month >= lo /\ row.Month <= hi

\* Series.isin(selected_crimes)
isin(row, selected) == row.Crime_type \in Range(selected)

\* incidents_df.loc[time_mask]
FilterByTime(incidents, lo, hi) == SelectSeq(incidents, LAMBDA r : time_mask(r, lo, hi))

\* df[df['Crime type'].isin(selected_crimes)]
FilterByType(incidents, selected) == SelectSeq(incidents, LAMBDA r : isin(r, selected))

AllDefaults(targets, crimes) == targets

\* [c for c in target_defaults if c in all_crimes]
ValidDefaults(targets, crimes) == SelectSeq(targets, LAMBDA c : c \in Range(crimes))

\* Series.min() / Series.max() of the Month column; NaT is the minimum and
\* the maximum of an empty column
MonthMin(incidents) ==
    IF incidents = << >> THEN NaT
    ELSE CHOOSE m \in { incidents[i].Month : i \in 1..Len(incidents) } :
            \A i \in 1..Len(incidents) : m <= incidents[i].Month

MonthMax(incidents) ==
    IF incidents = << >> THEN NaT
    ELSE CHOOSE m \in { incidents[i].Month : i \in 1..Len(incidents) } :
            \A i \in 1..Len(incidents) : m >= incidents[i].Month

(***************************************************************************)
(* The render-time steps that compute something (sections 4, tabs 1 and 3).*)
(***************************************************************************)
\* master_df.set_index('LSOA21CD').to_dict('index'): code -> the other columns
stats_dict(df) ==
    [code \in { df.rows[i].LSOA21CD : i \in 1..Len(df.rows) } |->
        LET row == df.rows[CHOOSE i \in 1..Len(df.rows) : df.rows[i].LSOA21CD = code]
        IN  [c \in (DOMAIN row) \ {"LSOA21CD"} |-> row[c]]]

\* feature['properties'].update(stats_dict[lsoa_id]) for the features whose
\* code is a key of stats_dict; the feature objects are updated in place
InjectStats(features, stats) ==
    [i \in 1..Len(features) |->
        IF features[i].LSOA21CD \in DOMAIN stats
        THEN stats[features[i].LSOA21CD] @@ features[i]
        ELSE features[i]]

\* the sort key of a row as a float
SortKey(row, col) == IF col = "IMDScore" THEN FromInt(row.IMDScore) ELSE row[col]

\* df.sort_values(by=col, ascending=False).head(n), as the set of row
\* positions it can keep.  sort_values sorts with kind='quicksort', which
\* is not a stable sort: rows with equal keys come out in an order the
\* numpy build decides, so every choice of n rows that leaves no larger key
\* out is a possible head.
sort_values_head(df, col, n) ==
    { S \in SUBSET (1..Len(df.rows)) :
        /\ Cardinality(S) = Min2(n, Len(df.rows))
        /\ \A i \in S : \A j \in (1..Len(df.rows)) \ S :
              FloatGE(SortKey(df.rows[i], col), SortKey(df.rows[j], col)) }

\* set(top['LSOA21LN'])
NamesOf(df, S) == { df.rows[i].LSOA21LN : i \in S }

union_of_names(a, b) == a \cup b

\* deprived_names.intersection(crime_names)
intersection(a, b) == a \cap b

(***************************************************************************)
(* Input data: the contents of the four input files.                       *)
(***************************************************************************)
GeoJsonFile == "raw_data/Lower_Layer_Super_Output_Areas_2021_(Precise).geojson"

CsvFiles == { "app_data_incidents.csv", "app_data_master.csv",
              "bristol_pubs_restaurants.csv" }

AllFiles == CsvFiles \cup { GeoJsonFile }

Months == 1..MaxMonth

\* one priority category and one that is not in target_defaults
CrimeTypes == << "Burglary", "Drugs" >>

\* the codes an incident can carry: missing, two areas of the master table,
\* and a code the master table does not have
IncidentCodes == << NA, 1, 2, NumAreas + 1 >>

NumKinds == MaxMonth * Len(CrimeTypes) * Len(IncidentCodes)

\* the k-th kind of incident row, k in 1..NumKinds
IncidentOfKind(k) ==
    LET c == (k - 1) % Len(IncidentCodes)
        t == ((k - 1) \div Len(IncidentCodes)) % Len(CrimeTypes)
        m == (k - 1) \div (Len(IncidentCodes) * Len(CrimeTypes))
    IN  [Month |-> m + 1, Crime_type |-> CrimeTypes[t + 1],
         LSOA21CD |-> IncidentCodes[c + 1]]

\* the incident tables of at most MaxIncidents rows, one per multiset of rows
IncidentTables ==
    { [i \in 1..Len(ks) |-> IncidentOfKind(ks[i])] :
        ks \in { s \in UNION { [1..n -> 1..NumKinds] : n \in 0..MaxIncidents } :
                    \A i \in 1..(Len(s) - 1) : s[i] <= s[i + 1] } }

Population(i) == IF i = 1 THEN 400 ELSE IF i = 2 THEN 0 ELSE 1000

\* areas 1 and 2 tie for the lowest score, the others are all different
Deprivation(i) == IF i <= 2 THEN 1 ELSE i

MasterRow(i) ==
    [LSOA21CD |-> i, LSOA21LN |-> 100 + i,
     POP2022Total |-> Population(i), IMDScore |-> Deprivation(i)]

\* a master file without the derived columns, and one that was saved with
\* them (all-time totals), which is what makes the drop of line 151 matter
MasterTables ==
    { DataFrame(<< "LSOA21CD", "LSOA21LN", "POP2022Total", "IMDScore" >>,
                [i \in 1..NumAreas |-> MasterRow(i)]),
      DataFrame(<< "LSOA21CD", "LSOA21LN", "Total_Crimes", "Crime_Rate",
                   "POP2022Total", "IMDScore" >>,
                [i \in 1..NumAreas |->
                    MasterRow(i) @@ [Total_Crimes |-> FromInt(7),
                                     Crime_Rate |-> FromInt(9)]]) }

\* boundary features: an area of the master table and one it does not have
GeoFeatures ==
    << [LSOA21CD |-> 1, LSOA21LN |-> 101, LSOA21NM |-> 201],
       [LSOA21CD |-> NumAreas + 1, LSOA21LN |-> 100 + NumAreas + 1,
        LSOA21NM |-> 200 + NumAreas + 1] >>

Pubs == << [BUSINESS_NAME |-> "pub", BUSINESS_TYPE |-> "Pub/bar/nightclub"] >>

NoObjects == [incidents |-> << >>, master |-> EmptyFrame, pubs |-> << >>, geojson |-> << >>]

NoExport == [header |-> << >>, rows |-> << >>]

(***************************************************************************)
(* The state machine.                                                      *)
(***************************************************************************)
locals == << start_date, end_date, base_filtered_incidents, all_crimes,
             valid_defaults, selected_crimes, filtered_incidents, export_csv,
             master_df, top_deprived, top_crime, common_areas >>

ClearLocals ==
    /\ start_date' = NaT
    /\ end_date' = NaT
    /\ base_filtered_incidents' = << >>
    /\ all_crimes' = << >>
    /\ valid_defaults' = << >>
    /\ selected_crimes' = << >>
    /\ filtered_incidents' = << >>
    /\ export_csv' = NoExport
    /\ master_df' = EmptyFrame
    /\ top_deprived' = {}
    /\ top_crime' = {}
    /\ common_areas' = {}

Init ==
    /\ files = AllFiles
    /\ disk \in [incidents : IncidentTables, master : MasterTables,
                 pubs : {Pubs}, geojson : {GeoFeatures}]
    /\ cache = << >>
    /\ pc = "idle"
    /\ loaded = NoObjects
    /\ start_date = NaT
    /\ end_date = NaT
    /\ base_filtered_incidents = << >>
    /\ all_crimes = << >>
    /\ valid_defaults = << >>
    /\ selected_crimes = << >>
    /\ filtered_incidents = << >>
    /\ export_csv = NoExport
    /\ master_df = EmptyFrame
    /\ top_deprived = {}
    /\ top_crime = {}
    /\ common_areas = {}
    /\ ui = {}

\* the environment: an input file disappears, or the missing ones come back
RemoveFile ==
    /\ pc = "idle"
    /\ files = AllFiles
    /\ \E f \in AllFiles : files' = AllFiles \ {f}
    /\ UNCHANGED << disk, cache, pc, loaded, locals, ui >>

RestoreFiles ==
    /\ pc = "idle"
    /\ files # AllFiles
    /\ files' = AllFiles
    /\ UNCHANGED << disk, cache, pc, loaded, locals, ui >>

\* the runtime starts a rerun of the script (first load or an interaction)
Rerun ==
    /\ pc = "idle"
    /\ pc' = "load_data"
    /\ ui' = {}
    /\ UNCHANGED << files, disk, cache, loaded, locals >>

\* the script has ended (ran through, st.stop() or an exception): its
\* objects are gone, the session waits for the next interaction
EndRun ==
    /\ pc \in { "done", "stopped", "raised" }
    /\ pc' = "idle"
    /\ loaded' = NoObjects
    /\ ClearLocals
    /\ UNCHANGED << files, disk, cache, ui >>

no_stop == "load_geojson"

\* st.stop(): the script halts here
st_stop == "stopped"

\* load_data() on a cache miss with the three CSV files present: read them,
\* parse Month, store the result in the st.cache_data entry
LoadDataRead ==
    /\ pc = "load_data"
    /\ cache = << >>
    /\ CsvFiles \subseteq files
    /\ cache' = << [incidents |-> disk.incidents, master |-> disk.master,
                    pubs |-> disk.pubs] >>
    /\ loaded' = [loaded EXCEPT !.incidents = disk.incidents,
                                !.master = disk.master, !.pubs = disk.pubs]
    /\ pc' = "load_geojson"
    /\ UNCHANGED << files, disk, locals, ui >>

\* load_data() on a cache hit: st.cache_data hands out a copy of the entry
LoadDataCached ==
    /\ pc = "load_data"
    /\ cache # << >>
    /\ loaded' = [loaded EXCEPT !.incidents = cache[1].incidents,
                                !.master = cache[1].master, !.pubs = cache[1].pubs]
    /\ pc' = "load_geojson"
    /\ UNCHANGED << files, disk, cache, locals, ui >>

\* load_data() on a cache miss with a CSV file missing: FileNotFoundError,
\* st.error, st.stop
LoadDataMissing ==
    /\ pc = "load_data"
    /\ cache = << >>
    /\ ~(CsvFiles \subseteq files)
    /\ ui' = ui \cup { "File not found" }
    /\ pc' = st_stop
    /\ UNCHANGED << files, disk, cache, loaded, locals >>

\* load_geojson(): not cached, the file is read in every rerun
LoadGeojson ==
    /\ pc = "load_geojson"
    /\ GeoJsonFile \in files
    /\ loaded' = [loaded EXCEPT !.geojson = disk.geojson]
    /\ pc' = "slider"
    /\ UNCHANGED << files, disk, cache, locals, ui >>

LoadGeojsonMissing ==
    /\ pc = "load_geojson"
    /\ GeoJsonFile \notin files
    /\ ui' = ui \cup { "GeoJSON file not found" }
    /\ pc' = st_stop
    /\ UNCHANGED << files, disk, cache, loaded, locals >>

\* lines 79-88 with incidents: the slider returns a range the user chose
\* between the first and the last month of the data
Slider ==
    /\ pc = "slider"
    /\ loaded.incidents # << >>
    /\ \E lo \in MonthMin(loaded.incidents)..MonthMax(loaded.incidents) :
       \E hi \in lo..MonthMax(loaded.incidents) :
          /\ start_date' = lo
          /\ end_date' = hi
    /\ pc' = "time_mask"
    /\ UNCHANGED << files, disk, cache, loaded, base_filtered_incidents, all_crimes,
                    valid_defaults, selected_crimes, filtered_incidents, export_csv,
                    master_df, top_deprived, top_crime, common_areas, ui >>

\* lines 79-88 without incidents: min() and max() of the empty Month column
\* are NaT and NaT.date() is NaT, which st.slider does not take as a value
\* (it accepts int, float, date, time and datetime): the call raises
SliderNaT ==
    /\ pc = "slider"
    /\ MonthMin(loaded.incidents) = NaT
    /\ pc' = "raised"
    /\ UNCHANGED << files, disk, cache, loaded, locals, ui >>

\* lines 90-110
TimeMask ==
    /\ pc = "time_mask"
    /\ base_filtered_incidents' = FilterByTime(loaded.incidents, start_date, end_date)
    /\ all_crimes' = unique([i \in 1..Len(base_filtered_incidents') |->
                                base_filtered_incidents'[i].Crime_type])
    /\ valid_defaults' = ValidDefaults(target_defaults, all_crimes')
    /\ pc' = "multiselect"
    /\ UNCHANGED << files, disk, cache, loaded, start_date, end_date, selected_crimes,
                    filtered_incidents, export_csv, master_df, top_deprived,
                    top_crime, common_areas, ui >>

\* lines 112-118: the multiselect returns the options the user has selected
\* (valid_defaults until the user changes the selection)
Multiselect ==
    /\ pc = "multiselect"
    /\ \E off \in SUBSET Range(all_crimes) :
          /\ selected_crimes' = Without(all_crimes, off)
          /\ filtered_incidents' = FilterByType(base_filtered_incidents, selected_crimes')
    /\ pc' = "export"
    /\ UNCHANGED << files, disk, cache, loaded, start_date, end_date,
                    base_filtered_incidents, all_crimes, valid_defaults, export_csv,
                    master_df, top_deprived, top_crime, common_areas, ui >>

\* lines 134-140: the data of the download button
Export ==
    /\ pc = "export"
    /\ export_csv' = [header |-> << "Month", "Crime type", "LSOA21CD" >>,
                      rows |-> filtered_incidents]
    /\ pc' = "aggregate"
    /\ UNCHANGED << files, disk, cache, loaded, start_date, end_date,
                    base_filtered_incidents, all_crimes, valid_defaults,
                    selected_crimes, filtered_incidents, master_df, top_deprived,
                    top_crime, common_areas, ui >>

DropInPlace(df, cs) == drop(df, cs)

\* what DataFrame.drop(columns=cs) leaves of the frame it is called on: the
\* call returns a new frame and the frame itself stays as it was
DropOperand(df, cs) == df

\* lines 146-160
Aggregate ==
    /\ pc = "aggregate"
    /\ master_df' = recompute_area_stats(loaded.master, filtered_incidents)
    /\ loaded' = [loaded EXCEPT !.master = DropOperand(@, StaleColumns(@))]
    /\ pc' = IF master_df' = KeyError THEN "raised" ELSE "overview"
    /\ UNCHANGED << files, disk, cache, start_date, end_date,
                    base_filtered_incidents, all_crimes, valid_defaults,
                    selected_crimes, filtered_incidents, export_csv, top_deprived,
                    top_crime, common_areas, ui >>

\* lines 167-189
Overview ==
    /\ pc = "overview"
    /\ ui' = ui \cup { IF filtered_incidents # << >> THEN "Dataset Overview KPIs"
                       ELSE "No data available for the current filters." }
    /\ pc' = "map"
    /\ UNCHANGED << files, disk, cache, loaded, locals >>

\* lines 197-293: the statistics are written into the loaded GeoJSON object
Map ==
    /\ pc = "map"
    /\ loaded' = [loaded EXCEPT !.geojson = InjectStats(@, stats_dict(master_df))]
    /\ ui' = ui \cup { "Geospatial Map" }
    /\ pc' = "tab2"
    /\ UNCHANGED << files, disk, cache, locals >>

\* lines 311-358
Tab2 ==
    /\ pc = "tab2"
    /\ ui' = ui \cup { IF filtered_incidents # << >> THEN "Crime Distribution Charts"
                       ELSE "Please adjust filters to see statistical analysis." }
    /\ pc' = "tab3"
    /\ UNCHANGED << files, disk, cache, loaded, locals >>

\* lines 361-385
Tab3 ==
    /\ pc = "tab3"
    /\ \E d \in sort_values_head(master_df, "IMDScore", TopN) :
       \E c \in sort_values_head(master_df, "Crime_Rate", TopN) :
          /\ top_deprived' = d
          /\ top_crime' = c
          /\ common_areas' = intersection(NamesOf(master_df, d), NamesOf(master_df, c))
    /\ ui' = ui \cup { IF Cardinality(common_areas') > 0
                       THEN "Key Finding: neighbourhoods appear in both lists"
                       ELSE "Key Finding: Zero overlap" }
    /\ pc' = "done"
    /\ UNCHANGED << files, disk, cache, loaded, start_date, end_date,
                    base_filtered_incidents, all_crimes, valid_defaults,
                    selected_crimes, filtered_incidents, export_csv, master_df >>

Next ==
    \/ RemoveFile
    \/ RestoreFiles
    \/ Rerun
    \/ EndRun
    \/ LoadDataRead
    \/ LoadDataCached
    \/ LoadDataMissing
    \/ LoadGeojson
    \/ LoadGeojsonMissing
    \/ Slider
    \/ SliderNaT
    \/ TimeMask
    \/ Multiselect
    \/ Export
    \/ Aggregate
    \/ Overview
    \/ Map
    \/ Tab2
    \/ Tab3

Spec == Init /\ [][Next]_vars

(***************************************************************************)
(* Properties.                                                             *)
(***************************************************************************)
AfterLoad == { "slider", "time_mask", "multiselect", "export", "aggregate",
               "overview", "map", "tab2", "tab3", "done", "raised" }

AfterTimeMask == { "multiselect", "export", "aggregate", "overview", "map",
                   "tab2", "tab3", "done" }

AfterMultiselect == AfterTimeMask \ { "multiselect" }

AfterAggregate == { "overview", "map", "tab2", "tab3", "done" }

AfterMap == { "tab2", "tab3", "done" }

MasterCodes == { loaded.master.rows[i].LSOA21CD : i \in 1..Len(loaded.master.rows) }

\* the number of rows of the sequence s equal to r
Occurrences(s, r) == Cardinality({ i \in 1..Len(s) : s[i] = r })

\* the sum of the Period_Total_Crimes column
RECURSIVE SumOfCounts(_)
SumOfCounts(rows) ==
    IF rows = << >> THEN 0
    ELSE rows[Len(rows)].Period_Total_Crimes[1] + SumOfCounts(SubSeq(rows, 1, Len(rows) - 1))

\* every filtered incident set the two filters can produce from incidents
FilterResults(incidents) ==
    { SelectSeq(incidents, LAMBDA r : r.Month >= lo /\ r.Month <= hi /\ r.Crime_type \in T) :
        lo \in Months, hi \in Months, T \in SUBSET Range(CrimeTypes) }

\* C1: after the aggregation pass every row of the master table has
\* Period_Total_Crimes equal to the number of filtered incidents with the
\* row's LSOA21CD (0 when none) and Total_Crimes equal to it; incidents with
\* a missing code or a code the master table lacks count in no row (the
\* counts add up to the incidents whose code the table has), and the pass
\* does not fail.
C1_PeriodTotals ==
    /\ master_df # KeyError
    /\ pc \in AfterAggregate =>
        /\ \A i \in 1..Len(master_df.rows) :
              /\ master_df.rows[i].Period_Total_Crimes =
                    FromInt(CountCode(filtered_incidents, master_df.rows[i].LSOA21CD))
              /\ master_df.rows[i].Total_Crimes = master_df.rows[i].Period_Total_Crimes
        /\ SumOfCounts(master_df.rows) =
              Cardinality({ k \in 1..Len(filtered_incidents) :
                              filtered_incidents[k].LSOA21CD \in MasterCodes })

C1_Witness ==
    /\ pc \in AfterAggregate
    /\ \E i \in 1..Len(filtered_incidents) : filtered_incidents[i].LSOA21CD = NA
    /\ \E i \in 1..Len(filtered_incidents) : filtered_incidents[i].LSOA21CD \in MasterCodes

C1_WitnessUnknownCode ==
    /\ pc \in AfterAggregate
    /\ \E i \in 1..Len(filtered_incidents) :
          filtered_incidents[i].LSOA21CD \notin MasterCodes \cup {NA}
    /\ \E i \in 1..Len(master_df.rows) : master_df.rows[i].Period_Total_Crimes = FromInt(1)

\* C2: after the aggregation pass every area's Crime_Rate is
\* Total_Crimes / POP2022Total * 1000, and an area whose population is 0
\* has Crime_Rate 0 whatever the number of its filtered incidents.
C2_CrimeRate ==
    pc \in AfterAggregate =>
        \A i \in 1..Len(master_df.rows) :
            LET row == master_df.rows[i] IN
            /\ row.POP2022Total > 0 =>
                  row.Crime_Rate = Norm(row.Total_Crimes[1] * PerThousand,
                                        row.Total_Crimes[2] * row.POP2022Total)
            /\ row.POP2022Total = 0 => row.Crime_Rate = Zero

\* C3: a pass over the output of an earlier pass gives what a pass over the
\* loaded master table gives, for every second filtered set: the same
\* rows, columns (none suffixed, none twice) and values; a second pass with
\* the same filtered set reproduces the first.
C3_NoResidue ==
    pc = "overview" =>
        /\ \A B \in FilterResults(loaded.incidents) :
              recompute_area_stats(master_df, B) = recompute_area_stats(loaded.master, B)
        /\ recompute_area_stats(master_df, filtered_incidents) = master_df
        /\ master_df.columns =
              Without(loaded.master.columns, Range(cols_to_drop)) \o cols_to_drop

C3_Witness ==
    /\ pc = "overview"
    /\ filtered_incidents # << >>
    /\ HasColumn(loaded.master, "Crime_Rate")
    /\ \E B \in FilterResults(loaded.incidents) :
          recompute_area_stats(master_df, B) # master_df

\* C4: the output of the pass has as many rows as the master table it was
\* given, with the same LSOA21CD in every position, for every filtered set.
C4_RowsPreserved ==
    pc \in AfterAggregate =>
        /\ Len(master_df.rows) = Len(loaded.master.rows)
        /\ \A i \in 1..Len(loaded.master.rows) :
              master_df.rows[i].LSOA21CD = loaded.master.rows[i].LSOA21CD

C4_Witness ==
    /\ pc \in AfterAggregate
    /\ \E i \in 1..Len(filtered_incidents) :
          filtered_incidents[i].LSOA21CD \notin MasterCodes
    /\ \E i \in 1..Len(master_df.rows) : master_df.rows[i].Period_Total_Crimes = Zero

C4_WitnessEmpty ==
    /\ pc \in AfterAggregate
    /\ filtered_incidents = << >>
    /\ Len(master_df.rows) = NumAreas

\* C5: the filtered incidents are exactly the loaded incidents whose month
\* lies in [start_date, end_date], both ends included, and whose crime type
\* is selected; filtering by type first gives the same; every filtered row
\* is a loaded row; nothing is kept when no type is selected.
C5_Filter ==
    pc \in AfterMultiselect =>
        /\ filtered_incidents =
              SelectSeq(loaded.incidents,
                        LAMBDA r : /\ start_date <= r.Month
                                   /\ r.Month <= end_date
                                   /\ r.Crime_type \in Range(selected_crimes))
        /\ filtered_incidents =
              FilterByTime(FilterByType(loaded.incidents, selected_crimes),
                           start_date, end_date)
        /\ \A r \in Range(filtered_incidents) :
              Occurrences(filtered_incidents, r) <= Occurrences(loaded.incidents, r)
        /\ selected_crimes = << >> => filtered_incidents = << >>

C5_Witness ==
    /\ pc \in AfterMultiselect
    /\ Len(loaded.incidents) = 2
    /\ Len(filtered_incidents) = 1
    /\ filtered_incidents[1].Month = end_date
    /\ Len(base_filtered_incidents) = 2

C5_WitnessDate ==
    /\ pc \in AfterMultiselect
    /\ Len(filtered_incidents) = 1
    /\ Len(base_filtered_incidents) = 1
    /\ start_date = end_date
    /\ filtered_incidents[1].Month = start_date
    /\ Len(loaded.incidents) = 2

\* C6: the default selection is the entries of the priority list, in its
\* order, that are the crime type of some date-filtered incident; a
\* priority type absent from the window is not a default, and every default
\* is an offered option.
C6_Defaults ==
    pc \in AfterTimeMask =>
        /\ valid_defaults =
              SelectSeq(target_defaults,
                        LAMBDA c : \E i \in 1..Len(base_filtered_incidents) :
                                      base_filtered_incidents[i].Crime_type = c)
        /\ Range(valid_defaults) \subseteq Range(all_crimes)

C6_Witness ==
    /\ pc \in AfterTimeMask
    /\ \E i \in 1..Len(loaded.incidents) : loaded.incidents[i].Crime_type = "Burglary"
    /\ "Burglary" \notin Range(valid_defaults)
    /\ all_crimes # << >>

C6_WitnessPresent ==
    /\ pc \in AfterTimeMask
    /\ valid_defaults = << "Burglary" >>
    /\ Len(all_crimes) = 2

C8_MissingFileHalts ==
    /\ [](pc = "stopped" =>
            /\ ui \in { {"File not found"}, {"GeoJSON file not found"} }
            /\ ~(AllFiles \subseteq files)
            /\ loaded.geojson = << >>
            /\ (cache = << >> => loaded = NoObjects)
            /\ filtered_incidents = << >>
            /\ export_csv = NoExport
            /\ master_df = EmptyFrame
            /\ common_areas = {})
    /\ [][ /\ (pc = "load_data" /\ cache = << >> /\ ~(CsvFiles \subseteq files))
              => (pc' = "stopped" /\ "File not found" \in ui')
           /\ (pc = "load_geojson" /\ GeoJsonFile \notin files)
              => (pc' = "stopped" /\ "GeoJSON file not found" \in ui')
           /\ pc = "stopped" => pc' = "idle" ]_vars

C8_Witness ==
    /\ pc = "stopped"
    /\ "app_data_master.csv" \notin files
    /\ cache = << >>

C8_WitnessGeojson ==
    /\ pc = "stopped"
    /\ GeoJsonFile \notin files
    /\ cache # << >>

\* C9: with an empty incident set a rerun runs to completion without
\* raising: it never ends in an exception, and once aggregated every area
\* has Period_Total_Crimes 0 and Crime_Rate 0 and the no-data state shows.
C9_EmptyIncidentsComplete ==
    disk.incidents = << >> =>
        /\ pc # "raised"
        /\ pc \in AfterMap =>
              /\ \A i \in 1..Len(master_df.rows) :
                    /\ master_df.rows[i].Period_Total_Crimes = Zero
                    /\ master_df.rows[i].Crime_Rate = Zero
              /\ "No data available for the current filters." \in ui

\* the head a stable descending sort followed by head(n) keeps: a row is
\* kept when fewer than n rows precede it, a row with an equal key
\* preceding it when it comes earlier in the table
StableHead(df, col, n) ==
    { i \in 1..Len(df.rows) :
        Cardinality({ j \in 1..Len(df.rows) :
            \/ /\ FloatGE(SortKey(df.rows[j], col), SortKey(df.rows[i], col))
               /\ ~FloatGE(SortKey(df.rows[i], col), SortKey(df.rows[j], col))
            \/ /\ SortKey(df.rows[j], col) = SortKey(df.rows[i], col)
               /\ j < i }) < n }

\* the n-th largest key is larger than the next one: no tie at the cut
NoTieAtCut(df, col, n) ==
    LET head == StableHead(df, col, n)
        rest == (1..Len(df.rows)) \ head
    IN  \A i \in head : \A j \in rest :
            ~FloatGE(SortKey(df.rows[j], col), SortKey(df.rows[i], col))

C10_WitnessFullOverlap ==
    /\ pc = "done"
    /\ Cardinality(common_areas) = TopN
    /\ "Key Finding: neighbourhoods appear in both lists" \in ui

====
